---- MODULE Spec2Model ----
\* A model of the PyMoe API client: the MyAnimeList REST client (class Mal:
\* search, get, ranking, seasonal) and the AniList GraphQL manga search
\* (function manga and the continuation object it may return).
\*
\* Every public operation is synchronous: it sends one request, reads one
\* response and returns.  An operation is therefore one action; the upstream
\* server's answer and the caller's arguments are drawn from bounded sets.
\* The caller is either ready to call (pc = "ready") or holds the outcome of
\* the call it just made (pc = "returned").
EXTENDS Integers, Sequences, FiniteSets, TLC

VARIABLES
    pc,           \* "ready" | "returned": the caller's position
    today_month,  \* the system clock's month, what date.today().month reads
    call,         \* the operation last called and its arguments
    request,      \* the HTTP request that call sent
    response,     \* the HTTP response it received
    result,       \* what the call returned or raised
    wrapper       \* the continuation object the caller holds, or None

vars == <<pc, today_month, call, request, response, result, wrapper>>

-----------------------------------------------------------------------------
\* Bounds of the model.

MaxOffset == 2      \* offsets are drawn from -NegOffset .. MaxOffset
NegOffset == 1
MaxLimit == 2       \* limits are drawn from 0 .. MaxLimit
MaxData == 2        \* records in one upstream page
MaxRank == 3        \* rank values are drawn from 1 .. MaxRank
MaxPage == 3        \* GraphQL pages are numbered 1 .. MaxPage

\* Program constants.
HTTP_OK == 200

-----------------------------------------------------------------------------
\* Python values.

\* None and an optional value: None is the empty tuple, a value x is <<x>>.
None == <<>>
Some(x) == <<x>>

\* bool(x) of an optional string: None and "" are false.
Truthy(x) == x # None /\ x # Some("")

\* An empty dict, and d[k] = v on a dict d.
EmptyDict == [k \in {} |-> None]
DictSet(d, k, v) == [x \in (DOMAIN d) \cup {k} |-> IF x = k THEN v ELSE d[x]]

\* The outcomes of a call.
Pending == [kind |-> "pending"]
ReturnNone == [kind |-> "None"]
Return(kind, value) == [kind |-> kind, value |-> value]
Raise(exc, args) == [kind |-> "raise", exc |-> exc, args |-> args]

NoCall == [op |-> "none"]
NoRequest == [method |-> "none"]
NoResponse == [status_code |-> 0]

-----------------------------------------------------------------------------
\* The inputs.

Offsets == (0 - NegOffset) .. MaxOffset
Limits == 0 .. MaxLimit
StatusCodes == {HTTP_OK, 201, 404, 500}
Titles == {"Akira", "paging"}
Links == {"https://api/next?offset=a", "https://api/next?offset=b"}
Months == 1 .. 12
Seasons == {None, Some(""), Some("winter"), Some("fall")}
Years == {2020}
\* fields and nsfw as the caller may pass them
Options == {[fields |-> None, nsfw |-> FALSE], [fields |-> Some("id,title"), nsfw |-> TRUE]}

SeqsUpTo(S, n) == UNION {[1 .. k -> S] : k \in 0 .. n}

\* The node of the i-th record of a page.
Node(i, title) == [id |-> i, title |-> title]

\* The data lists the REST API answers search and seasonal with.
TitleData ==
    {[i \in 1 .. Len(ts) |-> [node |-> Node(i, ts[i])]] : ts \in SeqsUpTo(Titles, MaxData)}

\* The data lists it answers ranking with: each record carries its rank.
RankData ==
    {[i \in 1 .. Len(rs) |-> [node |-> Node(i, "Akira"), ranking |-> [rank |-> rs[i]]]] :
        rs \in SeqsUpTo(1 .. MaxRank, MaxData)}

\* The paging objects: with or without a "next" link, with or without a
\* "previous" link.
Pagings ==
    LET nexts == {EmptyDict} \cup {DictSet(EmptyDict, "next", l) : l \in Links}
    IN  nexts \cup {DictSet(p, "previous", "https://api/previous") : p \in nexts}

\* The JSON documents of a 200 response: the envelope {data, paging}, or one
\* of the two keys alone.
Envelope(D) ==
    {[k \in {"data", "paging"} |-> IF k = "data" THEN d ELSE p] : d \in D, p \in Pagings}
        \cup {[k \in {"data"} |-> d] : d \in D}
        \cup {[k \in {"paging"} |-> p] : p \in Pagings}

ErrorDoc == [k \in {"error"} |-> "error"]

\* The responses to a call whose 200 documents are Docs.
Responses(Docs) ==
    {[status_code |-> HTTP_OK, json |-> j] : j \in Docs}
        \cup {[status_code |-> s, json |-> ErrorDoc] : s \in StatusCodes \ {HTTP_OK}}

-----------------------------------------------------------------------------
\* class Mal

Mal_settings ==
    [header |-> [ContentType |-> "application/json", XMALCLIENTID |-> "apikey"],
     apiurl |-> "https://api.myanimelist.net/v2/",
     default_fields |-> "id,title,main_picture,alternative_titles,start_date,end_date,nsfw,genres,status,media_type,broadcast"]

ShortFields == "id,title,main_picture,alternative_titles,start_date"

\* fields or <default>
FieldsOr(fields, default) == IF Truthy(fields) THEN fields[1] ELSE default

\* 'false' if not nsfw else 'true'
NsfwParam(nsfw) == IF ~nsfw THEN "false" ELSE "true"

\* for item in jsd['data']: rdict[item['node']['title']] = item['node']
RECURSIVE TitleLoop(_, _, _)
TitleLoop(rdict, data, i) ==
    IF i > Len(data) THEN rdict
    ELSE TitleLoop(DictSet(rdict, data[i].node.title, data[i].node), data, i + 1)

\* A variant that keys the records by their position in the list.
RECURSIVE RankLoop_ByIndex(_, _, _)
RankLoop_ByIndex(ranking, data, i) ==
    IF i > Len(data) THEN ranking
    ELSE RankLoop_ByIndex(DictSet(ranking, i, data[i].node), data, i + 1)

\* for item in jsd['data']: rdict['ranking'][item['ranking']['rank']] = item['node']
RECURSIVE RankLoop(_, _, _)
RankLoop(ranking, data, i) ==
    IF i > Len(data) THEN ranking
    ELSE RankLoop(DictSet(ranking, data[i].ranking.rank, data[i].node), data, i + 1)

\* A variant that clamps what would be a negative offset to None.
PagingPrevious_Clamped(offset, limit) ==
    IF offset - limit >= 0 THEN Some(offset - limit) ELSE None

\* (offset - limit) if offset > 0 else None
PagingPrevious(offset, limit) == IF offset > 0 THEN Some(offset - limit) ELSE None

\* A variant that tests the paging object for being non-empty instead of for
\* holding 'next'.
PagingNext_NonEmpty(offset, limit, paging) ==
    IF paging # EmptyDict THEN Some(offset + limit) ELSE None

\* (offset + limit) if 'next' in jsd['paging'] else None
PagingNext(offset, limit, paging) ==
    IF "next" \in DOMAIN paging THEN Some(offset + limit) ELSE None

\* rdict['paging'] = {}; rdict['paging']['previous'] = ...; rdict['paging']['next'] = ...
Paging(offset, limit, paging) ==
    [previous |-> PagingPrevious(offset, limit), next |-> PagingNext(offset, limit, paging)]

\* What search and seasonal do with the response r.
TitleResult(r, offset, limit) ==
    IF r.status_code # HTTP_OK THEN ReturnNone
    ELSE IF "data" \notin DOMAIN r.json THEN Raise("KeyError", <<"data">>)
    ELSE IF "paging" \notin DOMAIN r.json THEN Raise("KeyError", <<"paging">>)
    ELSE Return("dict",
                DictSet(TitleLoop(EmptyDict, r.json["data"], 1), "paging",
                        Paging(offset, limit, r.json["paging"])))

\* What ranking does with the response r.
RankingResult(r, offset, limit) ==
    IF r.status_code # HTTP_OK THEN ReturnNone
    ELSE IF "data" \notin DOMAIN r.json THEN Raise("KeyError", <<"data">>)
    ELSE IF "paging" \notin DOMAIN r.json THEN Raise("KeyError", <<"paging">>)
    ELSE Return("dict",
                [ranking |-> RankLoop(EmptyDict, r.json["data"], 1),
                 paging |-> Paging(offset, limit, r.json["paging"])])

\* What get does with the response r.
GetResult(r) ==
    IF r.status_code # HTTP_OK THEN ReturnNone ELSE Return("json", r.json)

search ==
    /\ pc = "ready"
    /\ \E limit \in Limits, offset \in Offsets, o \in Options, r \in Responses(Envelope(TitleData)) :
        /\ call' = [op |-> "search", name |-> "akira", limit |-> limit, offset |-> offset,
                    fields |-> o.fields, nsfw |-> o.nsfw]
        /\ request' = [method |-> "GET", url |-> <<Mal_settings.apiurl, "anime">>,
                       params |-> [q |-> "akira",
                                   fields |-> FieldsOr(o.fields, ShortFields),
                                   limit |-> limit, offset |-> offset,
                                   nsfw |-> NsfwParam(o.nsfw)],
                       headers |-> Mal_settings.header]
        /\ response' = r
        /\ result' = TitleResult(r, offset, limit)
    /\ pc' = "returned"
    /\ UNCHANGED <<today_month, wrapper>>

get ==
    /\ pc = "ready"
    /\ \E o \in Options,
          r \in Responses({[id |-> 1, title |-> "Akira"]}) :
        /\ call' = [op |-> "get", id |-> "1", fields |-> o.fields]
        /\ request' = [method |-> "GET", url |-> <<Mal_settings.apiurl, "anime", "1">>,
                       params |-> [fields |-> FieldsOr(o.fields, Mal_settings.default_fields),
                                   nsfw |-> "true"],
                       headers |-> Mal_settings.header]
        /\ response' = r
        /\ result' = GetResult(r)
    /\ pc' = "returned"
    /\ UNCHANGED <<today_month, wrapper>>

ranking ==
    /\ pc = "ready"
    /\ \E limit \in Limits, offset \in Offsets, o \in Options, r \in Responses(Envelope(RankData)) :
        /\ call' = [op |-> "ranking", rank_type |-> "all", limit |-> limit, offset |-> offset,
                    fields |-> o.fields, nsfw |-> o.nsfw]
        /\ request' = [method |-> "GET", url |-> <<Mal_settings.apiurl, "anime/ranking">>,
                       params |-> [ranking_type |-> "all", limit |-> limit, offset |-> offset,
                                   fields |-> FieldsOr(o.fields, ShortFields),
                                   nsfw |-> NsfwParam(o.nsfw)],
                       headers |-> Mal_settings.header]
        /\ response' = r
        /\ result' = RankingResult(r, offset, limit)
    /\ pc' = "returned"
    /\ UNCHANGED <<today_month, wrapper>>

\* The month after m on the calendar.
NextMonth(m) == IF m = 12 THEN 1 ELSE m + 1

\* What the successive date.today().month reads of one call can return,
\* starting from the clock's month m: the clock may pass a month boundary
\* between two reads, at most once during the call.
ClockReads(m) ==
    {<<m, m, m>>, <<m, m, NextMonth(m)>>, <<m, NextMonth(m), NextMonth(m)>>}

\* myseason = season; if not season: the if/elif chain, each test reading
\* date.today().month anew (reads[1], reads[2], reads[3] in turn).
MySeason(season, reads) ==
    IF Truthy(season) THEN season[1]
    ELSE IF reads[1] <= 3 THEN "winter"
    ELSE IF reads[2] <= 6 THEN "spring"
    ELSE IF reads[3] <= 9 THEN "summer"
    ELSE "fall"

seasonal ==
    /\ pc = "ready"
    /\ \E limit \in Limits, offset \in Offsets, o \in Options, season \in Seasons,
          year \in Years, reads \in ClockReads(today_month),
          r \in Responses(Envelope(TitleData)) :
        /\ Truthy(season) => reads = <<today_month, today_month, today_month>>
        /\ call' = [op |-> "seasonal", year |-> year, season |-> season,
                    sort |-> "anime_score", limit |-> limit, offset |-> offset,
                    fields |-> o.fields, nsfw |-> o.nsfw, reads |-> reads]
        /\ request' = [method |-> "GET",
                       url |-> <<Mal_settings.apiurl, "anime/season", year,
                                 MySeason(season, reads)>>,
                       params |-> [sort |-> "anime_score", limit |-> limit, offset |-> offset,
                                   fields |-> FieldsOr(o.fields, ShortFields)],
                       headers |-> Mal_settings.header]
        /\ response' = r
        /\ result' = TitleResult(r, offset, limit)
        /\ today_month' = reads[3]
    /\ pc' = "returned"
    /\ UNCHANGED wrapper

\* The calendar moves to the next month while the caller is between calls.
Tick ==
    /\ pc = "ready"
    /\ today_month' = NextMonth(today_month)
    /\ UNCHANGED <<pc, call, request, response, result, wrapper>>

-----------------------------------------------------------------------------
\* manga search (AniList GraphQL)

settings ==
    [header |-> [ContentType |-> "application/json",
                 UserAgent |-> "Pymoe (github.com/ccubed/PyMoe)",
                 Accept |-> "application/json"],
     apiurl |-> "https://graphql.anilist.co"]

query_string ==
    "query($query:String,$page:Int,$perPage:Int){Page(page:$page,perPage:$perPage){pageInfo{currentPage hasNextPage} media(search:$query,type:MANGA){...}}}"

Terms == {"naruto", "bleach"}
Pages == 1 .. MaxPage
PerPages == {1, 3}
MangaStatusCodes == {HTTP_OK, 400, 500}

\* The media lists of one page.
MediaLists == {[i \in 1 .. k |-> [id |-> i]] : k \in 0 .. MaxData}

\* The value of data in a GraphQL answer; hasNextPage is a JSON true, false
\* or null.
PageData(page) ==
    {[Page |-> [pageInfo |-> [currentPage |-> page, hasNextPage |-> h], media |-> m]] :
        h \in {"true", "false", "null"}, m \in MediaLists}

\* The JSON objects the server may answer with: with or without errors, with
\* or without data.
GraphQLDocs(page) ==
    {EmptyDict, DictSet(EmptyDict, "errors", <<"rejected">>)}
        \cup {DictSet(EmptyDict, "data", d) : d \in PageData(page)}
        \cup {DictSet(DictSet(EmptyDict, "errors", <<"rejected">>), "data", d) :
                d \in PageData(page)}

\* The response bodies (r.text).  form "json" is the serialisation of doc;
\* "truncated" is that serialisation cut short; "html" is an HTML error page
\* and "empty" the empty body.
Bodies(page) ==
    {[form |-> f, doc |-> d] : f \in {"json", "truncated"}, d \in GraphQLDocs(page)}
        \cup {[form |-> f, doc |-> EmptyDict] : f \in {"html", "empty"}}

MangaResponses(page) ==
    {[status_code |-> s, text |-> b] : s \in MangaStatusCodes, b \in Bodies(page)}

\* ujson.loads(text): the document of a body that is JSON, ValueError for
\* every other body.
ujson_loads(text) ==
    IF text.form = "json" THEN [ok |-> TRUE, value |-> text.doc] ELSE [ok |-> FALSE]

\* bool(x) of a JSON true, false or null.
JsonTruthy(x) == x = "true"

\* json_params = {'query': query_string, 'variables': {...}}
json_params(term, page, perPage) ==
    [query |-> query_string,
     variables |-> [query |-> term, page |-> page, perPage |-> perPage]]

\* anilistWrapper(data, json, headers, base_url): the continuation object.
anilistWrapper(data, json, headers, base_url) ==
    [data |-> data, json |-> json, headers |-> headers, base_url |-> base_url]

\* A variant that answers a body it cannot parse with None, as the REST
\* client answers a failed request.
ParseFailure_Silent(r) == ReturnNone

\* except ValueError: raise serializationFailed(r.text, r.status_code)
ParseFailure(r) == Raise("serializationFailed", <<r.text, r.status_code>>)

\* raise serverError(r.text, r.status_code)
ErrorsPresent(r) == Raise("serverError", <<r.text, r.status_code>>)

\* A variant that hands out a wrapper whenever the page holds media.
PageResult_ByMedia(jsd, params) ==
    IF "data" \notin DOMAIN jsd THEN Raise("KeyError", <<"data">>)
    ELSE IF Len(jsd["data"].Page.media) > 0
         THEN Return("wrapper",
                     anilistWrapper(jsd["data"].Page.media, params,
                                    settings.header, settings.apiurl))
    ELSE Return("list", jsd["data"].Page.media)

\* if jsd['data']['Page']['pageInfo']['hasNextPage']: return anilistWrapper(...)
\* else: return jsd['data']['Page']['media']
PageResult(jsd, params) ==
    IF "data" \notin DOMAIN jsd THEN Raise("KeyError", <<"data">>)
    ELSE IF JsonTruthy(jsd["data"].Page.pageInfo.hasNextPage)
         THEN Return("wrapper",
                     anilistWrapper(jsd["data"].Page.media, params,
                                    settings.header, settings.apiurl))
    ELSE Return("list", jsd["data"].Page.media)

\* A variant that looks for errors only when the payload carries no data.
MangaResult_DataFirst(r, params) ==
    LET parsed == ujson_loads(r.text)
        jsd == parsed.value
    IN  IF ~parsed.ok THEN ParseFailure(r)
        ELSE IF "errors" \in DOMAIN jsd /\ "data" \notin DOMAIN jsd THEN ErrorsPresent(r)
        ELSE PageResult(jsd, params)

\* The try/except/else of manga on the response r to the payload params.
MangaResult(r, params) ==
    LET parsed == ujson_loads(r.text)
        jsd == parsed.value
    IN  IF ~parsed.ok THEN ParseFailure(r)
        ELSE IF "errors" \in DOMAIN jsd THEN ErrorsPresent(r)
        ELSE PageResult(jsd, params)

\* The continuation object the caller holds after a call with outcome res.
Held(res, old) == IF res.kind = "wrapper" THEN res.value ELSE old

manga ==
    /\ pc = "ready"
    /\ \E term \in Terms, page \in Pages, perPage \in PerPages :
        \E r \in MangaResponses(page) :
            /\ call' = [op |-> "manga", term |-> term, page |-> page, perPage |-> perPage]
            /\ request' = [method |-> "POST", url |-> settings.apiurl,
                           headers |-> settings.header,
                           json |-> json_params(term, page, perPage)]
            /\ response' = r
            /\ result' = MangaResult(r, json_params(term, page, perPage))
            /\ wrapper' = Held(MangaResult(r, json_params(term, page, perPage)), None)
    /\ pc' = "returned"
    /\ UNCHANGED today_month

\* The request payload of the wrapper's next fetch: the stored payload with
\* page incremented.
WrapperNextParams(w) == [w.json EXCEPT !.variables.page = @ + 1]

\* The wrapper's next fetch: the stored query is sent again for the following
\* page, to the stored endpoint with the stored headers, and the answer is
\* handled as manga handles it.
WrapperNext ==
    /\ pc = "ready"
    /\ wrapper # None
    /\ wrapper.json.variables.page < MaxPage
    /\ \E r \in MangaResponses(wrapper.json.variables.page + 1) :
        /\ call' = [op |-> "next", wrapper |-> wrapper]
        /\ request' = [method |-> "POST", url |-> wrapper.base_url,
                       headers |-> wrapper.headers,
                       json |-> WrapperNextParams(wrapper)]
        /\ response' = r
        /\ result' = MangaResult(r, WrapperNextParams(wrapper))
        /\ wrapper' = IF MangaResult(r, WrapperNextParams(wrapper)).kind = "list"
                      THEN None
                      ELSE Held(MangaResult(r, WrapperNextParams(wrapper)), wrapper)
    /\ pc' = "returned"
    /\ UNCHANGED today_month

\* The caller drops the continuation object without asking for more pages.
Discard ==
    /\ pc = "ready"
    /\ wrapper # None
    /\ wrapper' = None
    /\ UNCHANGED <<pc, today_month, call, request, response, result>>

-----------------------------------------------------------------------------
\* The caller takes the outcome and is ready for its next call.
Resume ==
    /\ pc = "returned"
    /\ pc' = "ready"
    /\ call' = NoCall
    /\ request' = NoRequest
    /\ response' = NoResponse
    /\ result' = Pending
    /\ UNCHANGED <<today_month, wrapper>>

Init ==
    /\ pc = "ready"
    /\ today_month \in Months
    /\ call = NoCall
    /\ request = NoRequest
    /\ response = NoResponse
    /\ result = Pending
    /\ wrapper = None

Next == search \/ get \/ ranking \/ seasonal \/ Tick \/ Resume

Spec == Init /\ [][Next]_vars

NextManga == manga \/ WrapperNext \/ Discard \/ Resume

SpecManga == Init /\ [][NextManga]_vars

-----------------------------------------------------------------------------
\* Properties.

\* A paginated operation of Mal has returned its dictionary.
PaginatedReturned ==
    /\ pc = "returned"
    /\ call.op \in {"search", "ranking", "seasonal"}
    /\ response.status_code = HTTP_OK
    /\ result.kind = "dict"

\* A title-keyed operation of Mal has returned its dictionary.
TitleKeyedReturned == PaginatedReturned /\ call.op \in {"search", "seasonal"}

\* The paging cursor of the returned dictionary, and the upstream envelope.
Cursor == result.value["paging"]
UpstreamData == response.json["data"]
UpstreamPaging == response.json["paging"]

NonNegative(x) == x = None \/ x[1] >= 0

\* C1: a paginated call with limit > 0 and offset >= 0 that gets a 200
\* response never returns a negative offset: paging.previous and paging.next
\* are each None or an integer >= 0.
C1_NoNegativeOffsets ==
    (PaginatedReturned /\ call.limit > 0 /\ call.offset >= 0)
        => (NonNegative(Cursor.previous) /\ NonNegative(Cursor.next))

\* C2: in search, ranking and seasonal, paging.previous is offset - limit when
\* offset > 0 and None when offset <= 0, whatever the upstream payload holds.
C2_PreviousOffset ==
    PaginatedReturned
        => /\ call.offset > 0 => Cursor.previous = Some(call.offset - call.limit)
           /\ call.offset <= 0 => Cursor.previous = None
           /\ (Cursor.previous = None) <=> (call.offset <= 0)

\* A call with 0 < offset < limit has returned offset - limit as previous,
\* from a response that names no previous page.
C2_Witness ==
    /\ PaginatedReturned
    /\ call.op = "seasonal"
    /\ call.offset > 0
    /\ call.offset < call.limit
    /\ "previous" \notin DOMAIN UpstreamPaging
    /\ Cursor.previous = Some(call.offset - call.limit)

\* C3: in search, ranking and seasonal, paging.next is None when the upstream
\* paging object has no 'next' entry and offset + limit when it has one,
\* whatever the link says and however many records came back.
C3_NextOffset ==
    PaginatedReturned
        => /\ "next" \notin DOMAIN UpstreamPaging => Cursor.next = None
           /\ "next" \in DOMAIN UpstreamPaging
                => Cursor.next = Some(call.offset + call.limit)

\* A ranking call has returned offset + limit as next for a page that holds
\* no record but names a next page.
C3_Witness ==
    /\ PaginatedReturned
    /\ call.op = "ranking"
    /\ "next" \in DOMAIN UpstreamPaging
    /\ Len(UpstreamData) = 0
    /\ call.offset > 0
    /\ Cursor.next = Some(call.offset + call.limit)

\* C4: get fails with NotFound on a 404 response and with RequestFailed on
\* every other non-2xx response; it never returns a value for a non-2xx
\* response.
C4_GetFailsOnError ==
    (pc = "returned" /\ call.op = "get" /\ response.status_code \notin 200 .. 299)
        => /\ result.kind = "raise"
           /\ result.exc = IF response.status_code = 404 THEN "NotFound"
                           ELSE "RequestFailed"

\* C5: the dictionary search and seasonal return holds every upstream record
\* under its title, also when two records share a title or a title is
\* "paging", and holds the {previous, next} cursor under 'paging'.
C5_EveryRecordByTitle ==
    TitleKeyedReturned
        => /\ \A i \in DOMAIN UpstreamData :
                /\ UpstreamData[i].node.title \in DOMAIN result.value
                /\ result.value[UpstreamData[i].node.title] = UpstreamData[i].node
           /\ Cursor = Paging(call.offset, call.limit, UpstreamPaging)

\* The season the calendar assigns to a month.
Quarter(m) ==
    IF m \in 1 .. 3 THEN "winter"
    ELSE IF m \in 4 .. 6 THEN "spring"
    ELSE IF m \in 7 .. 9 THEN "summer"
    ELSE "fall"

\* The season in the path of the request seasonal sent.
RequestedSeason == request.url[4]

\* C6: seasonal called with season unset requests the season of the current
\* month (1-3 winter, 4-6 spring, 7-9 summer, 10-12 fall), the current month
\* being any month the clock showed during the call; a season that is given
\* is requested unchanged.
C6_SeasonOfCurrentMonth ==
    (PaginatedReturned /\ call.op = "seasonal" /\ call.limit > 0 /\ call.offset >= 0)
        => IF Truthy(call.season)
           THEN RequestedSeason = call.season[1]
           ELSE \E i \in 1 .. 3 : RequestedSeason = Quarter(call.reads[i])

\* The same with the clock standing still during the call: the season
\* requested is the season of that month.
SeasonOfStableMonth ==
    (pc = "returned" /\ call.op = "seasonal")
        => IF Truthy(call.season)
           THEN RequestedSeason = call.season[1]
           ELSE (call.reads[1] = call.reads[3]) => RequestedSeason = Quarter(call.reads[1])

\* C7: the keys of the rank-keyed collection ranking returns are exactly the
\* ranks of the upstream records, in whatever order and with whatever gaps
\* they come, and each key holds the node of a record with that rank.
C7_RankKeys ==
    (PaginatedReturned /\ call.op = "ranking")
        => /\ DOMAIN result.value.ranking
                = {UpstreamData[i].ranking.rank : i \in DOMAIN UpstreamData}
           /\ \A k \in DOMAIN result.value.ranking :
                \E i \in DOMAIN UpstreamData :
                    /\ UpstreamData[i].ranking.rank = k
                    /\ result.value.ranking[k] = UpstreamData[i].node

\* ranking has returned a page whose ranks are out of order and not
\* contiguous, and do not start at 1.
C7_Witness ==
    /\ PaginatedReturned
    /\ call.op = "ranking"
    /\ Len(UpstreamData) = 2
    /\ UpstreamData[1].ranking.rank = 3
    /\ UpstreamData[2].ranking.rank = 1
    /\ DOMAIN result.value.ranking = {1, 3}
    /\ result.value.ranking[3] = UpstreamData[1].node

\* C8: manga raises serializationFailed with the raw body and the status
\* code whenever the body is not JSON, whatever the status; it returns
\* neither a list nor a wrapper then.
C8_SerializationFailed ==
    (pc = "returned" /\ call.op = "manga" /\ ~ujson_loads(response.text).ok)
        => /\ result.kind = "raise"
           /\ result.exc = "serializationFailed"
           /\ result.args = <<response.text, response.status_code>>
           /\ wrapper = None

\* manga has raised serializationFailed for a 200 response whose body is the
\* beginning of a page that has media and a next page.
C8_Witness ==
    /\ pc = "returned"
    /\ call.op = "manga"
    /\ response.status_code = HTTP_OK
    /\ response.text.form = "truncated"
    /\ "data" \in DOMAIN response.text.doc
    /\ "errors" \notin DOMAIN response.text.doc
    /\ response.text.doc["data"].Page.pageInfo.hasNextPage = "true"
    /\ result.kind = "raise"
    /\ result.exc = "serializationFailed"

\* The parsed payload of the response to manga or to the wrapper's fetch.
Parsed == ujson_loads(response.text)
MangaReturned == pc = "returned" /\ call.op \in {"manga", "next"}

\* C9: manga raises serverError with the raw body and the status code
\* whenever the parsed payload has an 'errors' field, also when the payload
\* carries a well-formed page as well; it returns no result then.
C9_ServerError ==
    (pc = "returned" /\ call.op = "manga" /\ Parsed.ok /\ "errors" \in DOMAIN Parsed.value)
        => /\ result.kind = "raise"
           /\ result.exc = "serverError"
           /\ result.args = <<response.text, response.status_code>>
           /\ wrapper = None

\* manga has raised serverError for a 200 response that carries errors next
\* to a page with media and a next page.
C9_Witness ==
    /\ pc = "returned"
    /\ call.op = "manga"
    /\ response.status_code = HTTP_OK
    /\ Parsed.ok
    /\ "errors" \in DOMAIN Parsed.value
    /\ "data" \in DOMAIN Parsed.value
    /\ Parsed.value["data"].Page.pageInfo.hasNextPage = "true"
    /\ Len(Parsed.value["data"].Page.media) > 0
    /\ result.kind = "raise"
    /\ result.exc = "serverError"

\* The response is an error-free page.
PageReceived ==
    /\ MangaReturned
    /\ Parsed.ok
    /\ "errors" \notin DOMAIN Parsed.value
    /\ "data" \in DOMAIN Parsed.value

ReceivedPage == Parsed.value["data"].Page

\* C10: for an error-free page manga returns a wrapper exactly when
\* hasNextPage is true and the plain media list otherwise; the wrapper holds
\* the page's media, the payload that was sent (the query document, query =
\* term, page, perPage), the headers and the endpoint; the wrapper's fetch
\* sends that payload again with page + 1 and the same term and perPage; and
\* a plain list is only ever returned for a page whose hasNextPage is false.
C10_Continuation ==
    /\ (PageReceived /\ call.op = "manga")
        => /\ (result.kind = "wrapper") <=> (ReceivedPage.pageInfo.hasNextPage = "true")
           /\ result.kind \in {"wrapper", "list"}
           /\ request.json = [query |-> query_string,
                              variables |-> [query |-> call.term, page |-> call.page,
                                             perPage |-> call.perPage]]
           /\ result.kind = "list" => result.value = ReceivedPage.media
           /\ result.kind = "wrapper"
                => /\ result.value = [data |-> ReceivedPage.media, json |-> request.json,
                                      headers |-> settings.header,
                                      base_url |-> settings.apiurl]
                   /\ wrapper = result.value
    /\ (MangaReturned /\ call.op = "next")
        => /\ request.json.query = call.wrapper.json.query
           /\ request.json.variables.query = call.wrapper.json.variables.query
           /\ request.json.variables.perPage = call.wrapper.json.variables.perPage
           /\ request.json.variables.page = call.wrapper.json.variables.page + 1
           /\ request.url = call.wrapper.base_url
           /\ request.headers = call.wrapper.headers
    /\ (MangaReturned /\ result.kind = "list")
        => /\ PageReceived
           /\ ReceivedPage.pageInfo.hasNextPage # "true"
    /\ (MangaReturned /\ wrapper # None /\ result.kind = "wrapper")
        => wrapper.json = request.json

\* Following a wrapper that manga returned for page 1, the fetch of page 2
\* has returned the plain list of a page without a next page.
C10_Witness ==
    /\ MangaReturned
    /\ call.op = "next"
    /\ call.wrapper.json.variables.page = 1
    /\ call.wrapper.json.variables.query = "bleach"
    /\ request.json.variables.page = 2
    /\ request.json.variables.query = "bleach"
    /\ PageReceived
    /\ ReceivedPage.pageInfo.hasNextPage = "false"
    /\ result.kind = "list"
    /\ Len(result.value) > 0
    /\ wrapper = None

====
